---- MODULE Spec2Model ----
(***************************************************************************)
(* The recording controller of the MeetNote browser extension              *)
(* (chrome-extension/background.js): the module-level recordingState, the  *)
(* async handlers startRecording, stopRecording, createHighlight and       *)
(* toggleRecording, the MediaRecorder objects they create, and the         *)
(* requests, notifications, tab messages and badge they produce; and of    *)
(* the popup (chrome-extension/popup.js) the token it stores and removes   *)
(* and its health probe checkBackendStatus.                                *)
(*                                                                         *)
(* JavaScript runs one task at a time: each action below is one run of the *)
(* event loop, from the moment a handler is entered or resumed after an    *)
(* await up to its next await (or its return). What a step does to the     *)
(* outside (the request it issues, the notification it creates, the tab    *)
(* messages it sends) is kept in request, notified and sent until the next *)
(* step.                                                                   *)
(***************************************************************************)
EXTENDS Integers, Sequences, FiniteSets, TLC

\* ---------------------------------------------------------------- bounds
\* Number of async calls (startRecording, stopRecording, toggleRecording's
\* query, createHighlight) waiting for an answer at the same time.
MaxInFlight == 1
\* Number of startRecording calls in one run; the k-th call is the one the
\* backend answers, if it does, with meeting k.
MaxStarts == 1
\* Number of non-empty timeslice chunks one MediaRecorder delivers before
\* it is stopped (the final, flushed chunk comes on top of these).
MaxChunks == 1

\* A run is explored within limits it keeps throughout: Spec takes the
\* bounds as they are, SpecWide takes each bound one larger, so that a
\* second start and a second call in flight are part of the run.
NarrowLimit ==
    [inFlight |-> MaxInFlight, starts |-> MaxStarts, chunks |-> MaxChunks,
     ui |-> FALSE]
WideLimit ==
    [inFlight |-> MaxInFlight + 1, starts |-> MaxStarts + 1,
     chunks |-> MaxChunks + 1, ui |-> FALSE]
\* A run that also follows what the popup shows of the recording (its
\* isRecording flag); the other runs leave the popup's flag out of account.
UILimit == [NarrowLimit EXCEPT !.ui = TRUE]
\* A run about the popup's probe: the probe shares the calls in flight with
\* the sessions, and no step of it reads the chunks, so one chunk a session
\* (enough for every chunk step to be taken) is followed.
LiveLimit == [NarrowLimit EXCEPT !.chunks = 1]

\* ------------------------------------------------------------- constants
HIGHLIGHT_WINDOW == 30000
MS_PER_SECOND == 1000

\* JavaScript values that are not numbers of the model.
Null == -1         \* null, and an absent storage key
Undefined == -2    \* a property the object does not have
NaN == -3          \* the result of arithmetic on undefined
Token == 1         \* the bearer token login stores

Tabs == {1, 2}
\* Date.now() at the moment a highlight is computed, in ms, with the clock's
\* origin at the moment the session started recording (T0 = 0): the two cases
\* of the specification and no time at all. All are whole seconds.
Elapsed == {0, 10000, 45000}

TaskIds == 1..WideLimit.inFlight
MeetingIds == 1..WideLimit.starts

VARIABLES
    limit,           \* the limits of this run
    recordingState,  \* background.js:12 the module-level state object
    storedToken,     \* chrome.storage.local 'token'
    tasks,           \* the async calls in flight
    nStarts,         \* startRecording calls made so far
    recorders,       \* MediaRecorder objects, by the meeting they record
    emitted,         \* non-empty chunks each live recorder has delivered
    badge,           \* chrome.action badge text
    request,         \* the backend request this step issued
    notified,        \* the notification this step created
    sent,            \* the tab messages this step sent, in order
    answer,          \* the answer this step received from the outside
    backendStatus,   \* what this step wrote into the popup's status indicator
    popup            \* popup.js:15 the popup document and its isRecording flag

vars == <<limit, recordingState, storedToken, tasks, nStarts, recorders, emitted,
          badge, request, notified, sent, answer, backendStatus, popup>>

\* ------------------------------------------------------------ the state
\* background.js:12-18: the state at load.
InitialState ==
    [isRecording |-> FALSE, meetingId |-> Null, audioChunks |-> <<>>,
     mediaRecorder |-> Null, currentTab |-> Null]

\* Reading a property of the state object: a property the object does not
\* have reads as undefined.
Get(obj, field) == IF field \in DOMAIN obj THEN obj[field] ELSE Undefined

\* An async call: where it waits (pc), its locals (tab, token, mid), and for
\* a stop the meeting and chunks of the session when the stop was accepted.
NoTask == [kind |-> "none", pc |-> "none", tab |-> Null, token |-> Null,
           mid |-> Null, accepted |-> <<>>]

NewTask(kind, pc) == [NoTask EXCEPT !.kind = kind, !.pc = pc]

InFlight(kind) == {i \in TaskIds : tasks[i].kind = kind}

StartInFlight == InFlight("start") # {}
StopInFlight == InFlight("stop") # {}
Capturing == {m \in MeetingIds : recorders[m] = "recording"}

NoRequest ==
    [api |-> "none", by |-> Null, meetingId |-> Null, token |-> Null,
     payload |-> <<>>, at |-> Null, start_time |-> Null, end_time |-> Null]

NoNotification == [by |-> Null, title |-> "none", message |-> ""]

Notification(by, title, message) ==
    [by |-> by, title |-> title, message |-> message]

TabMessage(tab, type, meetingId) ==
    [tab |-> tab, type |-> type, meetingId |-> meetingId]

\* No popup document; popup.js:15 is the flag of a document just created.
NoPopup == [open |-> FALSE, isRecording |-> FALSE, stateAsked |-> FALSE]

Loaded ==
    /\ recordingState = InitialState
    /\ storedToken \in {Null, Token}
    /\ tasks = [i \in TaskIds |-> NoTask]
    /\ nStarts = 0
    /\ recorders = [m \in MeetingIds |-> "none"]
    /\ emitted = [m \in MeetingIds |-> 0]
    /\ badge = ""
    /\ request = NoRequest
    /\ notified = NoNotification
    /\ sent = <<>>
    /\ answer = "none"
    /\ backendStatus = ""
    /\ popup = NoPopup

Init == limit = NarrowLimit /\ Loaded
InitWide == limit = WideLimit /\ Loaded
InitUI == limit = UILimit /\ Loaded
InitLive == limit = LiveLimit /\ Loaded

\* A call that has to wait is made only within the bound, and is known by
\* the first free place among the calls in flight.
FreeIds == {i \in 1..limit.inFlight : tasks[i].kind = "none"}
CanCall == FreeIds # {}
NextId ==
    IF CanCall THEN CHOOSE i \in FreeIds : \A j \in FreeIds : i <= j
    ELSE Null

\* ------------------------------------------------------ startRecording
\* background.js:91-93, the statements before the first await.
StartEntered(state, tabId) ==
    [state EXCEPT !.isRecording = TRUE, !.currentTab = tabId,
                  !.audioChunks = <<>>]

\* A catch block that leaves the state as the failed attempt left it.
StartCatchKeepsRecording(state) == state

\* background.js:140, the catch block's change of the state.
StartCatch(state) == [state EXCEPT !.isRecording = FALSE]

\* background.js:143-148
FailureNotification(by, message) ==
    Notification(by, "Recording Failed", message)

\* background.js:87-96: startRecording(tabId) up to `await storage.get`.
StartRecording(id, tabId) ==
    /\ nStarts < limit.starts
    /\ nStarts' = nStarts + 1
    /\ recordingState' = StartEntered(recordingState, tabId)
    /\ tasks' = [tasks EXCEPT
                   ![id] = [NewTask("start", "token") EXCEPT
                              !.tab = tabId, !.mid = nStarts + 1]]

\* A catch block that goes back to issue the request again.
StartFailedRetries(id, message) ==
    /\ notified' = NoNotification
    /\ tasks' = [tasks EXCEPT ![id].pc = "url"]
    /\ UNCHANGED recordingState

\* background.js:138-149: an error thrown anywhere in the try block.
StartFailed(id, message) ==
    /\ recordingState' = StartCatch(recordingState)
    /\ notified' = FailureNotification(id, message)
    /\ tasks' = [tasks EXCEPT ![id] = NoTask]

\* background.js:96-100 and the call of getCurrentTabUrl at 112.
StartTokenRead(id) ==
    /\ UNCHANGED <<limit, popup>> /\ backendStatus' = ""
    /\ answer' = IF storedToken = Null THEN "no token" ELSE "token"
    /\ tasks[id].kind = "start" /\ tasks[id].pc = "token"
    /\ IF storedToken = Null
       THEN StartFailed(id, "Not authenticated")
       ELSE /\ tasks' = [tasks EXCEPT ![id].pc = "url",
                                      ![id].token = storedToken]
            /\ notified' = NoNotification
            /\ UNCHANGED recordingState
    /\ request' = NoRequest /\ sent' = <<>>
    /\ UNCHANGED <<storedToken, nStarts, recorders, emitted, badge>>

\* background.js:103-114: the request startRecording issues.
CreateMeetingRequest(by, token) ==
    [NoRequest EXCEPT !.api = "createMeeting", !.by = by, !.token = token]

\* background.js:103-114: getCurrentTabUrl has answered, fetch is called.
StartUrlRead(id) ==
    /\ UNCHANGED <<limit, popup>> /\ backendStatus' = ""
    /\ answer' = "url"
    /\ tasks[id].kind = "start" /\ tasks[id].pc = "url"
    /\ request' = CreateMeetingRequest(id, tasks[id].token)
    /\ tasks' = [tasks EXCEPT ![id].pc = "fetch"]
    /\ notified' = NoNotification /\ sent' = <<>>
    /\ UNCHANGED <<recordingState, storedToken, nStarts, recorders, emitted,
                   badge>>

\* background.js:103-120: the answer to POST /api/meetings. With a 2xx
\* answer the backend has created a meeting.
StartFetchDone(id, outcome) ==
    /\ UNCHANGED <<limit, popup>> /\ backendStatus' = ""
    /\ answer' = outcome
    /\ tasks[id].kind = "start" /\ tasks[id].pc = "fetch"
    /\ CASE outcome = "ok" ->
              /\ tasks' = [tasks EXCEPT ![id].pc = "json"]
              /\ notified' = NoNotification
              /\ UNCHANGED recordingState
         [] outcome = "status" -> StartFailed(id, "Failed to create meeting")
         [] outcome = "network" -> StartFailed(id, "Failed to fetch")
    /\ request' = NoRequest /\ sent' = <<>>
    /\ UNCHANGED <<storedToken, nStarts, recorders, emitted, badge>>

\* background.js:120-124 and 217-223: the body has been parsed and
\* meeting.id is stored; then startTabAudioCapture runs up to
\* `await chrome.tabCapture.capture`.
StartJsonDone(id, parsed) ==
    /\ UNCHANGED <<limit, popup>> /\ backendStatus' = ""
    /\ answer' = IF parsed THEN "json" ELSE "bad json"
    /\ tasks[id].kind = "start" /\ tasks[id].pc = "json"
    /\ IF parsed
       THEN /\ recordingState' =
                  [recordingState EXCEPT !.meetingId = tasks[id].mid]
            /\ tasks' = [tasks EXCEPT ![id].pc = "capture"]
            /\ notified' = NoNotification
       ELSE StartFailed(id, "Unexpected end of JSON input")
    /\ request' = NoRequest /\ sent' = <<>>
    /\ UNCHANGED <<storedToken, nStarts, recorders, emitted, badge>>

\* background.js:225-257 and 126-136: the capture has answered. With a stream
\* a MediaRecorder is created and started and stored in the state, the tab is
\* told and the badge set; without one the error reaches the catch block.
StartCaptureDone(id, outcome) ==
    /\ UNCHANGED <<limit, popup>> /\ backendStatus' = ""
    /\ answer' = outcome
    /\ tasks[id].kind = "start" /\ tasks[id].pc = "capture"
    /\ CASE outcome = "stream" ->
              /\ recorders' = [recorders EXCEPT ![tasks[id].mid] = "recording"]
              /\ recordingState' =
                    [recordingState EXCEPT !.mediaRecorder = tasks[id].mid]
              /\ sent' = <<TabMessage(tasks[id].tab, "RECORDING_STARTED",
                                      tasks[id].mid)>>
              /\ badge' = "REC"
              /\ tasks' = [tasks EXCEPT ![id] = NoTask]
              /\ notified' = NoNotification
         [] outcome = "null" ->
              /\ StartFailed(id, "Failed to capture tab audio")
              /\ sent' = <<>>
              /\ UNCHANGED <<recorders, badge>>
         [] outcome = "reject" ->
              /\ StartFailed(id, "Error starting tab capture")
              /\ sent' = <<>>
              /\ UNCHANGED <<recorders, badge>>
    /\ request' = NoRequest
    /\ UNCHANGED <<storedToken, nStarts, emitted>>

\* ------------------------------------------------------- MediaRecorder
\* MediaRecorder.stop(): a recording recorder stops capturing and queues its
\* last dataavailable and its stop event; an inactive one is left as it is.
RecorderStop(state) == IF state = "recording" THEN "stopping" ELSE state

\* background.js:234-237: ondataavailable keeps a chunk that is not empty.
ChunkKept(chunks, chunk, size) ==
    IF size > 0 THEN Append(chunks, chunk) ELSE chunks

\* background.js:234-241 and 260-282: a timeslice has elapsed and the chunk
\* is kept; sendAudioChunkToBackend reads the token and encodes the chunk
\* but sends nothing.
DataAvailable(r, size) ==
    /\ UNCHANGED <<limit, popup>> /\ backendStatus' = ""
    /\ answer' = "chunk"
    /\ recorders[r] = "recording"
    /\ emitted[r] < limit.chunks
    /\ size > 0
    /\ recordingState' = [recordingState EXCEPT
          !.audioChunks = ChunkKept(@, <<r, emitted[r] + 1>>, size)]
    /\ emitted' = [emitted EXCEPT ![r] = @ + 1]
    /\ request' = NoRequest /\ notified' = NoNotification /\ sent' = <<>>
    /\ UNCHANGED <<storedToken, tasks, nStarts, recorders, badge>>

\* background.js:234-246: after stop() the recorder delivers what it has
\* gathered since the last timeslice (possibly nothing) and then its stop
\* event, which ends the stream's tracks. The recorder delivers nothing more.
RecorderStopped(r, size) ==
    /\ UNCHANGED <<limit, popup>> /\ backendStatus' = ""
    /\ answer' = "stopped"
    /\ recorders[r] = "stopping"
    /\ recorders' = [recorders EXCEPT ![r] = "inactive"]
    /\ recordingState' = [recordingState EXCEPT
          !.audioChunks = ChunkKept(@, <<r, emitted[r] + 1>>, size)]
    /\ emitted' = [emitted EXCEPT ![r] = 0]
    /\ request' = NoRequest /\ notified' = NoNotification /\ sent' = <<>>
    /\ UNCHANGED <<storedToken, tasks, nStarts, badge>>

\* -------------------------------------------------------- stopRecording
\* A reset that forgets to clear the meeting.
ResetStateKeepsMeeting ==
    [isRecording |-> FALSE, meetingId |-> recordingState.meetingId,
     audioChunks |-> <<>>, mediaRecorder |-> Null, currentTab |-> Null]

\* background.js:190-196
ResetState ==
    [isRecording |-> FALSE, meetingId |-> Null, audioChunks |-> <<>>,
     mediaRecorder |-> Null, currentTab |-> Null]

\* background.js:181-187
CompleteNotification(by) ==
    Notification(by, "Recording Complete",
                 "Your meeting has been processed and is ready to view.")

\* background.js:171-196: the rest of stopRecording after the upload, given
\* the messages sent so far in this step; a stop that had to wait (id) is
\* over.
StopFinish(id, sentNow) ==
    /\ sent' = IF recordingState.currentTab # Null
               THEN Append(sentNow, TabMessage(recordingState.currentTab,
                                               "RECORDING_STOPPED", Null))
               ELSE sentNow
    /\ badge' = ""
    /\ notified' = CompleteNotification(id)
    /\ recordingState' = ResetState
    /\ tasks' = IF id \in TaskIds THEN [tasks EXCEPT ![id] = NoTask] ELSE tasks

\* background.js:166-167: whether stopRecording calls uploadAudioToBackend.
ShouldUpload(state) == Len(state.audioChunks) > 0 /\ state.meetingId # Null

\* background.js:153-169 and 285-287: stopRecording() with isRecording true,
\* up to `await storage.get` in uploadAudioToBackend, or to its end when
\* there is nothing to upload.
StopRecording(id) ==
    /\ recordingState.isRecording
    /\ ShouldUpload(recordingState) => id \in TaskIds
    /\ recorders' =
          IF recordingState.mediaRecorder # Null
          THEN [recorders EXCEPT
                  ![recordingState.mediaRecorder] = RecorderStop(@)]
          ELSE recorders
    /\ IF ShouldUpload(recordingState)
       THEN /\ recordingState' = [recordingState EXCEPT !.isRecording = FALSE]
            /\ tasks' = [tasks EXCEPT ![id] =
                  [NewTask("stop", "token") EXCEPT
                      !.mid = recordingState.meetingId,
                      !.accepted = recordingState.audioChunks]]
            /\ sent' = <<>>
            /\ notified' = NoNotification
            /\ UNCHANGED badge
       ELSE StopFinish(Null, <<>>)

\* background.js:289: uploadAudioToBackend gives up without a request.
UploadSkipped(token, state) == token = Null \/ state.meetingId = Null

\* background.js:292-308: the request uploadAudioToBackend issues.
UploadRequest(by, token, state) ==
    [NoRequest EXCEPT !.api = "uploadAudio", !.by = by,
                      !.meetingId = state.meetingId, !.token = token,
                      !.payload = state.audioChunks]

\* background.js:287-308: the token has been read.
StopTokenRead(id) ==
    /\ UNCHANGED <<limit, popup>> /\ backendStatus' = ""
    /\ answer' = IF storedToken = Null THEN "no token" ELSE "token"
    /\ tasks[id].kind = "stop" /\ tasks[id].pc = "token"
    /\ IF UploadSkipped(storedToken, recordingState)
       THEN /\ StopFinish(id, <<>>)
            /\ request' = NoRequest
       ELSE /\ request' = UploadRequest(id, storedToken, recordingState)
            /\ tasks' = [tasks EXCEPT ![id].pc = "fetch",
                                      ![id].token = storedToken]
            /\ sent' = <<>>
            /\ notified' = NoNotification
            /\ UNCHANGED <<recordingState, badge>>
    /\ UNCHANGED <<storedToken, nStarts, recorders, emitted>>

\* background.js:299-314 and 325-327: the answer to the upload.
StopFetchDone(id, outcome) ==
    /\ UNCHANGED <<limit, popup>> /\ backendStatus' = ""
    /\ answer' = outcome
    /\ tasks[id].kind = "stop" /\ tasks[id].pc = "fetch"
    /\ IF outcome = "ok"
       THEN /\ tasks' = [tasks EXCEPT ![id].pc = "json"]
            /\ sent' = <<>>
            /\ notified' = NoNotification
            /\ UNCHANGED <<recordingState, badge>>
       ELSE StopFinish(id, <<>>)
    /\ request' = NoRequest
    /\ UNCHANGED <<storedToken, nStarts, recorders, emitted>>

\* background.js:314-327 and 171-196: the upload's body has been parsed (or
\* not), uploadAudioToBackend returns and stopRecording runs to its end.
StopJsonDone(id, parsed) ==
    /\ UNCHANGED <<limit, popup>> /\ backendStatus' = ""
    /\ answer' = IF parsed THEN "json" ELSE "bad json"
    /\ tasks[id].kind = "stop" /\ tasks[id].pc = "json"
    /\ StopFinish(id,
          IF parsed /\ recordingState.currentTab # Null
          THEN <<TabMessage(recordingState.currentTab,
                            "TRANSCRIPTION_COMPLETE", Null)>>
          ELSE <<>>)
    /\ request' = NoRequest
    /\ UNCHANGED <<storedToken, nStarts, recorders, emitted>>

\* ------------------------------------------------------ createHighlight
\* background.js:332: the guard of createHighlight.
HighlightAllowed(state) == state.isRecording /\ state.meetingId # Null

\* JavaScript arithmetic: undefined converts to NaN, and NaN is contagious.
ToNumber(v) == IF v \in {Undefined, NaN} THEN NaN ELSE v
Minus(a, b) ==
    IF ToNumber(a) = NaN \/ ToNumber(b) = NaN THEN NaN ELSE a - b
MathMax(a, b) ==
    IF ToNumber(a) = NaN \/ ToNumber(b) = NaN THEN NaN
    ELSE IF a >= b THEN a ELSE b
DividedBy(a, b) == IF ToNumber(a) = NaN THEN NaN ELSE a \div b
\* JSON.stringify writes NaN as null.
JsonNumber(v) == IF v = NaN THEN Null ELSE v

\* background.js:341: Date.now() - recordingState.startTime
CurrentTime(now, state) == Minus(now, Get(state, "startTime"))
\* background.js:342
WindowStart(currentTime) == MathMax(0, Minus(currentTime, HIGHLIGHT_WINDOW))
\* background.js:343
WindowEnd(currentTime) == currentTime

\* background.js:345-358: the request createHighlight issues at time now.
HighlightRequest(by, token, now, state) ==
    [NoRequest EXCEPT
       !.api = "createHighlight", !.by = by, !.meetingId = state.meetingId,
       !.token = token, !.at = now,
       !.start_time = JsonNumber(DividedBy(
                         WindowStart(CurrentTime(now, state)), MS_PER_SECOND)),
       !.end_time = JsonNumber(DividedBy(
                         WindowEnd(CurrentTime(now, state)), MS_PER_SECOND))]

\* background.js:331-338: createHighlight() up to `await storage.get`. The
\* call keeps nothing of the state; mid notes, for the record, the meeting
\* of the session that accepted the intent.
CreateHighlight(id) ==
    /\ HighlightAllowed(recordingState)
    /\ tasks' = [tasks EXCEPT ![id] =
                   [NewTask("highlight", "token") EXCEPT
                       !.mid = recordingState.meetingId]]

\* background.js:338-359: the token has been read (present or not), the
\* window is computed and the request issued.
HighlightTokenRead(id, now) ==
    /\ UNCHANGED <<limit, popup>> /\ backendStatus' = ""
    /\ answer' = IF storedToken = Null THEN "no token" ELSE "token"
    /\ tasks[id].kind = "highlight" /\ tasks[id].pc = "token"
    /\ request' = HighlightRequest(id, storedToken, now, recordingState)
    /\ tasks' = [tasks EXCEPT ![id].pc = "fetch", ![id].token = storedToken]
    /\ notified' = NoNotification /\ sent' = <<>>
    /\ UNCHANGED <<recordingState, storedToken, nStarts, recorders, emitted,
                   badge>>

\* background.js:361-372: the answer to the highlight request.
HighlightFetchDone(id, outcome) ==
    /\ UNCHANGED <<limit, popup>> /\ backendStatus' = ""
    /\ answer' = outcome
    /\ tasks[id].kind = "highlight" /\ tasks[id].pc = "fetch"
    /\ notified' =
          IF outcome = "ok"
          THEN Notification(id, "Highlight Created",
                            "Your highlight has been saved!")
          ELSE NoNotification
    /\ tasks' = [tasks EXCEPT ![id] = NoTask]
    /\ request' = NoRequest /\ sent' = <<>>
    /\ UNCHANGED <<recordingState, storedToken, nStarts, recorders, emitted,
                   badge>>

\* ---------------------------------------------------------- the intents
\* background.js:55-58: START_RECORDING from a content script.
MsgStartRecording(tabId) ==
    /\ UNCHANGED <<limit, popup>> /\ backendStatus' = ""
    /\ answer' = "none"
    /\ CanCall
    /\ StartRecording(NextId, tabId)
    /\ request' = NoRequest /\ notified' = NoNotification /\ sent' = <<>>
    /\ UNCHANGED <<storedToken, recorders, emitted, badge>>

\* popup.js:191-203 with background.js:55-58: the record button (of the
\* authenticated view, popup.js:53-55) of a popup that shows no recording
\* sends START_RECORDING and sets the popup's flag;
\* the message has no sender.tab, and reading sender.tab.id throws in the
\* listener.
MsgStartRecordingFromPopup ==
    /\ UNCHANGED limit /\ backendStatus' = ""
    /\ answer' = "none"
    /\ limit.ui => popup.open /\ ~popup.isRecording /\ storedToken # Null
    /\ popup' = IF limit.ui THEN [popup EXCEPT !.isRecording = TRUE] ELSE popup
    /\ request' = NoRequest /\ notified' = NoNotification /\ sent' = <<>>
    /\ UNCHANGED <<recordingState, storedToken, tasks, nStarts, recorders,
                   emitted, badge>>

\* A stopRecording without the guard of line 154: it runs to its end.
StopIgnoredRunsOn ==
    /\ ~recordingState.isRecording
    /\ StopFinish(Null, <<>>)
    /\ UNCHANGED recorders

\* background.js:153-154: stopRecording() with isRecording false returns.
StopIgnored ==
    /\ ~recordingState.isRecording
    /\ sent' = <<>> /\ notified' = NoNotification
    /\ UNCHANGED <<recordingState, tasks, recorders, badge>>

\* background.js:60-63: STOP_RECORDING.
MsgStopRecording ==
    /\ UNCHANGED <<limit, popup>> /\ backendStatus' = ""
    /\ answer' = IF recordingState.isRecording THEN "none" ELSE "not recording"
    /\ \/ StopRecording(NextId)
       \/ StopIgnored
    /\ request' = NoRequest
    /\ UNCHANGED <<storedToken, nStarts, emitted>>

\* background.js:38-40 and 204-214: the 'start-recording' command.
CmdToggleRecording ==
    /\ UNCHANGED <<limit, popup>> /\ backendStatus' = ""
    /\ answer' = "none"
    /\ IF recordingState.isRecording
       THEN StopRecording(NextId)
       ELSE /\ CanCall
            /\ tasks' = [tasks EXCEPT ![NextId] = NewTask("toggle", "query")]
            /\ sent' = <<>> /\ notified' = NoNotification
            /\ UNCHANGED <<recordingState, recorders, badge>>
    /\ request' = NoRequest
    /\ UNCHANGED <<storedToken, nStarts, emitted>>

\* background.js:208-212: chrome.tabs.query calls back with the active tab,
\* if there is one.
ToggleQueryDone(id, activeTab) ==
    /\ UNCHANGED <<limit, popup>> /\ backendStatus' = ""
    /\ answer' = IF activeTab # Null THEN "tab" ELSE "no tab"
    /\ tasks[id].kind = "toggle" /\ tasks[id].pc = "query"
    /\ IF activeTab # Null
       THEN StartRecording(id, activeTab)
       ELSE /\ tasks' = [tasks EXCEPT ![id] = NoTask]
            /\ UNCHANGED <<recordingState, nStarts>>
    /\ request' = NoRequest /\ notified' = NoNotification /\ sent' = <<>>
    /\ UNCHANGED <<storedToken, recorders, emitted, badge>>

\* background.js:41-43, 69-72 and 412-414: the 'create-highlight' command
\* and the CREATE_HIGHLIGHT message both call createHighlight().
HighlightIntent ==
    /\ UNCHANGED <<limit, popup>> /\ backendStatus' = ""
    /\ answer' = "none"
    /\ \/ CanCall /\ CreateHighlight(NextId)
       \/ ~HighlightAllowed(recordingState) /\ UNCHANGED tasks
    /\ request' = NoRequest /\ notified' = NoNotification /\ sent' = <<>>
    /\ UNCHANGED <<recordingState, storedToken, nStarts, recorders,
                   emitted, badge>>

\* background.js:378-382: the message toggleTranscript's callback sends.
TranscriptSent(activeTab) ==
    IF activeTab # Null
    THEN <<TabMessage(activeTab, "TOGGLE_TRANSCRIPT", Null)>>
    ELSE <<>>

\* background.js:44-46 and 376-377: the 'toggle-transcript' command calls
\* toggleTranscript(), which asks for the active tab.
CmdToggleTranscript ==
    /\ UNCHANGED <<limit, popup>> /\ backendStatus' = ""
    /\ answer' = "none"
    /\ CanCall
    /\ tasks' = [tasks EXCEPT ![NextId] = NewTask("transcript", "query")]
    /\ request' = NoRequest /\ notified' = NoNotification /\ sent' = <<>>
    /\ UNCHANGED <<recordingState, storedToken, nStarts, recorders, emitted,
                   badge>>

\* background.js:377-383: chrome.tabs.query calls back with the active tab,
\* if there is one.
TranscriptQueryDone(id, activeTab) ==
    /\ UNCHANGED <<limit, popup>> /\ backendStatus' = ""
    /\ answer' = IF activeTab # Null THEN "tab" ELSE "no tab"
    /\ tasks[id].kind = "transcript" /\ tasks[id].pc = "query"
    /\ sent' = TranscriptSent(activeTab)
    /\ tasks' = [tasks EXCEPT ![id] = NoTask]
    /\ request' = NoRequest /\ notified' = NoNotification
    /\ UNCHANGED <<recordingState, storedToken, nStarts, recorders, emitted,
                   badge>>

\* popup.js:237-239 with background.js:54-81: the popup sends
\* TOGGLE_TRANSCRIPT to the extension; the listener's switch has no case for
\* it, so the message is logged and nothing else happens.
MsgToggleTranscript ==
    /\ UNCHANGED <<limit, popup>> /\ backendStatus' = ""
    /\ answer' = "dropped"
    /\ request' = NoRequest /\ notified' = NoNotification /\ sent' = <<>>
    /\ UNCHANGED <<recordingState, storedToken, tasks, nStarts, recorders,
                   emitted, badge>>

\* popup.js:110-126 and 153-170: a login or a registration answered with a
\* 2xx status stores the token of the answer.
TokenStored ==
    /\ UNCHANGED <<limit, popup>> /\ backendStatus' = ""
    /\ answer' = "none"
    /\ storedToken = Null
    /\ limit.ui => popup.open
    /\ storedToken' = Token
    /\ request' = NoRequest /\ notified' = NoNotification /\ sent' = <<>>
    /\ UNCHANGED <<recordingState, tasks, nStarts, recorders, emitted, badge>>

\* popup.js:184-188: logout removes the token.
TokenRemoved ==
    /\ UNCHANGED <<limit, popup>> /\ backendStatus' = ""
    /\ answer' = "none"
    /\ storedToken # Null
    /\ limit.ui => popup.open
    /\ storedToken' = Null
    /\ request' = NoRequest /\ notified' = NoNotification /\ sent' = <<>>
    /\ UNCHANGED <<recordingState, tasks, nStarts, recorders, emitted, badge>>

FetchOutcomes == {"ok", "status", "network"}
CaptureOutcomes == {"stream", "null", "reject"}

\* A failed login that stores what the answer held all the same.
LoginFailedStoresToken(outcome) ==
    /\ UNCHANGED <<limit, popup>> /\ backendStatus' = ""
    /\ answer' = "login failed"
    /\ outcome # "ok"
    /\ storedToken = Null
    /\ limit.ui => popup.open
    /\ storedToken' = Undefined
    /\ request' = NoRequest /\ notified' = NoNotification /\ sent' = <<>>
    /\ UNCHANGED <<recordingState, tasks, nStarts, recorders, emitted, badge>>

\* popup.js:110-137 and 153-181: the request of a login or a registration
\* (made from the unauthenticated view, shown while no token is stored) is
\* answered with a non-2xx status or fails on the network; the catch block
\* alerts, and storage.set is not reached.
LoginFailed(outcome) ==
    /\ UNCHANGED <<limit, popup>> /\ backendStatus' = ""
    /\ answer' = "login failed"
    /\ outcome # "ok"
    /\ storedToken = Null
    /\ limit.ui => popup.open
    /\ request' = NoRequest /\ notified' = NoNotification /\ sent' = <<>>
    /\ UNCHANGED <<recordingState, storedToken, tasks, nStarts, recorders,
                   emitted, badge>>

\* ------------------------------------------------------------ the popup
\* An indicator that shows Connected whatever the probe found.
HealthShownAlwaysConnected(outcome) == "Connected"

\* popup.js:249-256: what the indicator is set to for an outcome of
\* GET /api/health.
HealthShown(outcome) == IF outcome = "ok" THEN "Connected" ELSE "Offline"

\* popup.js:244-247: fetch answers 2xx or non-2xx, rejects with a network
\* error, or is aborted by AbortSignal.timeout(5000).
HealthOutcomes == FetchOutcomes \cup {"timeout"}

\* popup.js:19-61 and 242-247: the popup is opened, its document is loaded
\* and checkBackendStatus runs up to `await fetch`. There is one popup, so
\* no other probe is waiting. (The health request needs no token and is not
\* one of the requests kept in request.)
PopupOpened ==
    /\ UNCHANGED limit /\ backendStatus' = ""
    /\ answer' = "none"
    /\ popup' = IF limit.ui
                THEN [open |-> TRUE, isRecording |-> FALSE, stateAsked |-> TRUE]
                ELSE popup
    /\ InFlight("probe") = {}
    /\ CanCall
    /\ tasks' = [tasks EXCEPT ![NextId] = NewTask("probe", "fetch")]
    /\ request' = NoRequest /\ notified' = NoNotification /\ sent' = <<>>
    /\ UNCHANGED <<recordingState, storedToken, nStarts, recorders, emitted,
                   badge>>

\* popup.js:249-256: the health request has an outcome and the indicator is
\* set.
HealthAnswered(id, outcome) ==
    /\ UNCHANGED <<limit, popup>>
    /\ answer' = outcome
    /\ tasks[id].kind = "probe" /\ tasks[id].pc = "fetch"
    /\ backendStatus' = HealthShown(outcome)
    /\ tasks' = [tasks EXCEPT ![id] = NoTask]
    /\ request' = NoRequest /\ notified' = NoNotification /\ sent' = <<>>
    /\ UNCHANGED <<recordingState, storedToken, nStarts, recorders, emitted,
                   badge>>

\* The popup is closed while its probe waits: the document goes, and the
\* pending probe and the indicator with it.
PopupClosed(id) ==
    /\ UNCHANGED limit /\ backendStatus' = ""
    /\ answer' = "none"
    /\ popup' = NoPopup
    /\ tasks[id].kind = "probe"
    /\ tasks' = [tasks EXCEPT ![id] = NoTask]
    /\ request' = NoRequest /\ notified' = NoNotification /\ sent' = <<>>
    /\ UNCHANGED <<recordingState, storedToken, nStarts, recorders, emitted,
                   badge>>

Next ==
    \/ \E t \in Tabs : MsgStartRecording(t)
    \/ MsgStartRecordingFromPopup
    \/ MsgStopRecording
    \/ CmdToggleRecording
    \/ HighlightIntent
    \/ CmdToggleTranscript
    \/ MsgToggleTranscript
    \/ TokenStored
    \/ TokenRemoved
    \/ \E o \in FetchOutcomes \ {"ok"} : LoginFailed(o)
    \/ PopupOpened
    \/ \E i \in TaskIds :
          \/ \E o \in HealthOutcomes : HealthAnswered(i, o)
          \/ PopupClosed(i)
    \/ \E i \in TaskIds :
          \/ StartTokenRead(i)
          \/ StartUrlRead(i)
          \/ \E o \in FetchOutcomes : StartFetchDone(i, o)
          \/ \E b \in BOOLEAN : StartJsonDone(i, b)
          \/ \E o \in CaptureOutcomes : StartCaptureDone(i, o)
          \/ StopTokenRead(i)
          \/ \E o \in FetchOutcomes : StopFetchDone(i, o)
          \/ \E b \in BOOLEAN : StopJsonDone(i, b)
          \/ \E t \in Tabs \cup {Null} : ToggleQueryDone(i, t)
          \/ \E t \in Tabs \cup {Null} : TranscriptQueryDone(i, t)
          \/ \E e \in Elapsed : HighlightTokenRead(i, e)
          \/ \E o \in FetchOutcomes : HighlightFetchDone(i, o)
    \/ \E r \in MeetingIds :
          \/ \E size \in {0, 1} : DataAvailable(r, size)
          \/ \E size \in {0, 1} : RecorderStopped(r, size)

Spec == Init /\ [][Next]_vars
SpecWide == InitWide /\ [][Next]_vars

\* popup.js:64-69 with background.js:65-67: the answer to the
\* GET_RECORDING_STATE the popup sent when it was loaded; the flag is set
\* only when the state says recording.
PopupStateRead ==
    /\ UNCHANGED limit /\ backendStatus' = ""
    /\ answer' = "none"
    /\ popup.open /\ popup.stateAsked
    /\ popup' = [popup EXCEPT !.stateAsked = FALSE,
                              !.isRecording =
                                 IF recordingState.isRecording THEN TRUE ELSE @]
    /\ request' = NoRequest /\ notified' = NoNotification /\ sent' = <<>>
    /\ UNCHANGED <<recordingState, storedToken, tasks, nStarts, recorders,
                   emitted, badge>>

\* popup.js:191-196 and 201-202 with background.js:60-63: the record button
\* of a popup that shows a recording sends STOP_RECORDING and clears the
\* popup's flag.
PopupStopClicked ==
    /\ UNCHANGED limit /\ backendStatus' = ""
    /\ answer' = IF recordingState.isRecording THEN "none" ELSE "not recording"
    /\ popup.open /\ popup.isRecording /\ storedToken # Null
    /\ popup' = [popup EXCEPT !.isRecording = FALSE]
    /\ \/ StopRecording(NextId)
       \/ StopIgnored
    /\ request' = NoRequest
    /\ UNCHANGED <<storedToken, nStarts, emitted>>

\* The run that follows the popup's flag as well.
NextUI ==
    \/ Next
    \/ PopupStateRead
    \/ PopupStopClicked

SpecUI == InitUI /\ [][NextUI]_vars

\* The request of the probe carries AbortSignal.timeout(5000): the fetch
\* settles, with an answer, an error or the abort, and the event loop then
\* resumes checkBackendStatus.
SpecLive ==
    /\ InitLive /\ [][Next]_vars
    /\ WF_vars(\E i \in TaskIds : \E o \in HealthOutcomes : HealthAnswered(i, o))

\* ------------------------------------------------------------- sessions
\* The status of the session as the state shows it: Stopping while a
\* stopRecording call is in flight, Starting while a startRecording call is
\* in flight and the state says recording, Recording while nothing is in
\* flight, the state says recording and a recorder captures, Idle while
\* nothing is in flight and the state says not recording. Any other state
\* (a start in flight on a state that a stop has reset, say) is none of them.
SessionIdle ==
    ~StartInFlight /\ ~StopInFlight /\ ~recordingState.isRecording

Status ==
    CASE StopInFlight -> "Stopping"
      [] ~StopInFlight /\ StartInFlight /\ recordingState.isRecording ->
            "Starting"
      [] ~StopInFlight /\ ~StartInFlight /\ recordingState.isRecording
            /\ Capturing # {} -> "Recording"
      [] SessionIdle -> "Idle"
      [] OTHER -> "Undefined"

\* A step that calls startRecording: the START_RECORDING message, or the
\* toggle command's query coming back with a tab.
StartCalled ==
    \/ \E t \in Tabs : MsgStartRecording(t)
    \/ \E i \in TaskIds : \E t \in Tabs : ToggleQueryDone(i, t)

\* A step that calls stopRecording with isRecording true.
StopAccepted ==
    /\ recordingState.isRecording
    /\ MsgStopRecording \/ CmdToggleRecording

\* A step in which a stopRecording call runs to its end: one that was in
\* flight, or one that had nothing to wait for.
StopCompleted ==
    \/ \E i \in TaskIds : tasks[i].kind = "stop" /\ tasks'[i].kind = "none"
    \/ StopAccepted /\ InFlight("stop")' = InFlight("stop")

\* --------------------------------------------------------------- claims

\* C1: a start intent that arrives while the session is not Idle changes
\* nothing: recordingState stays as it is and no startRecording call (hence
\* no POST /api/meetings) comes of it.
C1_StartWhileBusyIsNoOp ==
    [][(StartCalled /\ ~SessionIdle) =>
          /\ recordingState' = recordingState
          /\ InFlight("start")' = InFlight("start")]_vars

\* C2: at most one MediaRecorder captures at a time, and a capturing
\* recorder is the one recordingState.mediaRecorder refers to.
C2_OneRecorder ==
    /\ Cardinality(Capturing) <= 1
    /\ \A m \in Capturing : recordingState.mediaRecorder = m

\* C3: the status changes only along Idle -> Starting -> Recording ->
\* Stopping -> Idle, and Starting -> Idle when the start fails (Recording ->
\* Idle is the stop that has nothing to upload and passes through Stopping
\* within one step); in particular a stop while Starting does not take the
\* session out of Starting.
StatusMoves ==
    {<<"Idle", "Starting">>, <<"Starting", "Recording">>,
     <<"Recording", "Stopping">>, <<"Stopping", "Idle">>,
     <<"Starting", "Idle">>, <<"Recording", "Idle">>}

C3_StatusOrder ==
    [][Status' = Status \/ <<Status, Status'>> \in StatusMoves]_vars

\* C4: when an accepted stop runs to its end, whatever the upload did, the
\* state is the initial one: not recording, no meeting, no chunks, no
\* recorder, no tab.
C4_StopResets ==
    [][StopCompleted => recordingState' = InitialState]_vars

\* C4 witness: a stop that had a chunk to upload has just ended after the
\* upload was refused by the backend, and the state is the initial one.
C4_Witness ==
    /\ answer = "status"
    /\ notified = CompleteNotification(1)
    /\ \E m \in MeetingIds : recorders[m] = "stopping" /\ emitted[m] > 0
    /\ recordingState = InitialState

\* C5: a highlight intent while the status is not Recording starts no
\* createHighlight call, so no highlight request comes of it.
C5_HighlightOnlyWhileRecording ==
    [][(HighlightIntent /\ Status # "Recording") => tasks' = tasks]_vars

\* C6: the stop of a session that has N >= 1 chunks, a meeting and a stored
\* token issues one upload, for that meeting, whose payload is those N
\* chunks in order (followed, if it has arrived, by the chunk the stopped
\* recorder of that session flushed), and a chunk event issues no request.
UploadOf(task) ==
    /\ request'.api = "uploadAudio"
    /\ request'.meetingId = task.mid
    /\ \/ request'.payload = task.accepted
       \/ \E k \in 1..(WideLimit.chunks + 1) :
             request'.payload = Append(task.accepted, <<task.mid, k>>)

C6_OneUploadOfAllChunks ==
    [][/\ \A i \in TaskIds :
             (/\ tasks[i].kind = "stop" /\ tasks[i].pc = "token"
              /\ tasks'[i] # tasks[i]
              /\ storedToken # Null) => UploadOf(tasks[i])
       /\ \A i \in TaskIds :
             (tasks[i].kind = "stop" /\ tasks[i].pc # "token"
              /\ tasks'[i] # tasks[i]) => request' = NoRequest
       /\ (\E r \in MeetingIds : \E size \in {0, 1} :
              DataAvailable(r, size) \/ RecorderStopped(r, size))
             => request' = NoRequest]_vars

\* C7: a highlight request computed e ms after the session started carries
\* start_time = max(0, e - 30000) / 1000 and end_time = e / 1000, with
\* 0 <= start_time <= end_time.
C7_HighlightWindow ==
    request.api = "createHighlight" =>
       /\ request.end_time = request.at \div MS_PER_SECOND
       /\ request.start_time =
             (IF request.at - HIGHLIGHT_WINDOW > 0
              THEN request.at - HIGHLIGHT_WINDOW ELSE 0) \div MS_PER_SECOND
       /\ 0 <= request.start_time
       /\ request.start_time <= request.end_time

\* C8: meetingId is set exactly when the session has reached Recording (its
\* capture has begun), and is null whenever the session is Idle.
C8_MeetingIdIffRecording ==
    /\ recordingState.meetingId # Null <=>
          recordingState.mediaRecorder # Null
    /\ SessionIdle => recordingState.meetingId = Null

\* C9: audioChunks is non-empty only while the session is Recording or
\* Stopping, and is empty whenever the session is Idle.
C9_ChunksOnlyWhileRecording ==
    /\ recordingState.audioChunks # <<>> =>
          Status \in {"Recording", "Stopping"}
    /\ SessionIdle => recordingState.audioChunks = <<>>

\* C10: right after a start attempt has failed the session is Idle (not
\* recording, no MediaRecorder capturing, badge not 'REC') and the step has
\* created one 'Recording Failed' notification that carries the reason.
ReasonOf(failure) ==
    CASE failure = "no token" -> {"Not authenticated"}
      [] failure = "status" -> {"Failed to create meeting"}
      [] failure = "network" -> {"Failed to fetch"}
      [] failure = "bad json" -> {"Unexpected end of JSON input"}
      [] failure = "null" -> {"Failed to capture tab audio"}
      [] failure = "reject" -> {"Error starting tab capture"}
      [] OTHER -> {}

\* The start call i has received an answer that makes it fail.
StartFails(i) ==
    /\ tasks[i].kind = "start"
    /\ tasks'[i] # tasks[i]
    /\ ReasonOf(answer') # {}

C10_FailedStartEndsIdle ==
    [][\A i \in TaskIds : StartFails(i) =>
          /\ ~recordingState'.isRecording
          /\ Capturing' = {}
          /\ badge' # "REC"
          /\ notified'.title = "Recording Failed"
          /\ notified'.message \in ReasonOf(answer')]_vars

\* C11: a startRecording call that finds no stored token issues no request
\* (neither when it is entered nor when the token lookup answers), starts no
\* capture, ends, leaves isRecording false and creates the 'Recording
\* Failed' notification with the reason 'Not authenticated'; with no other
\* call in flight the session is then Idle.
NoTokenFound(i) ==
    /\ StartTokenRead(i)
    /\ storedToken = Null

C11_NoTokenNoStart ==
    [][/\ StartCalled => request' = NoRequest
       /\ \A i \in TaskIds : NoTokenFound(i) =>
             /\ request' = NoRequest
             /\ recorders' = recorders
             /\ tasks'[i] = NoTask
             /\ ~recordingState'.isRecording
             /\ notified' = FailureNotification(i, "Not authenticated")
             /\ (\A j \in TaskIds \ {i} : tasks[j] = NoTask) => SessionIdle'
      ]_vars

\* C11 witness: the token lookup of a start has just answered that there is
\* no token; the session is Idle and the notification is there.
C11_Witness ==
    /\ answer = "no token"
    /\ nStarts > 0
    /\ notified = FailureNotification(1, "Not authenticated")
    /\ request = NoRequest
    /\ Capturing = {}
    /\ SessionIdle

\* C12: the step in which a backend call fails (a network error or a non-2xx
\* answer to createMeeting, uploadAudio or createHighlight) creates a
\* notification that reports the failure; after a failed upload it is not
\* the notification that the meeting has been processed.
FailedAnswers == FetchOutcomes \ {"ok"}

C12_FailuresAreReported ==
    [][\A i \in TaskIds : \A o \in FailedAnswers :
          /\ StartFetchDone(i, o) => notified'.title = "Recording Failed"
          /\ StopFetchDone(i, o) =>
                /\ notified' # NoNotification
                /\ notified' # CompleteNotification(i)
          /\ HighlightFetchDone(i, o) => notified' # NoNotification]_vars

\* C13: checkBackendStatus always completes: a probe that waits for its
\* answer gets past the wait (or the popup is closed), and for every outcome
\* of GET /api/health the answering step ends the probe and sets the
\* indicator to Connected or Offline, Connected exactly when the answer was
\* 2xx; no other step writes the indicator.
Probing == InFlight("probe") # {}

C13_ProbeCompletes ==
    /\ [][/\ \A i \in TaskIds : \A o \in HealthOutcomes :
                HealthAnswered(i, o) =>
                   /\ tasks'[i] = NoTask
                   /\ backendStatus' \in {"Connected", "Offline"}
                   /\ backendStatus' = "Connected" <=> o = "ok"
          /\ backendStatus' = "Connected" =>
                \E i \in TaskIds : HealthAnswered(i, "ok")
          /\ backendStatus' # "" =>
                \E i \in TaskIds : \E o \in HealthOutcomes :
                   HealthAnswered(i, o)]_vars
    /\ (Probing ~> ~Probing)

\* C13 witness: the probe has ended on the timeout and shows Offline.
C13_Witness ==
    /\ answer = "timeout"
    /\ ~Probing
    /\ backendStatus = "Offline"

\* C14: every createMeeting, uploadAudio and createHighlight request carries
\* the bearer token that was found in the storage: when the lookup finds no
\* token, no request is issued.
C14_NoRequestWithoutToken ==
    request.api # "none" => request.token # Null

\* C15: no call is retried. A request is issued only by a call in flight,
\* of the kind that makes that request, at the moment it passes from before
\* its fetch to waiting for it; a call in flight only moves forward and never
\* comes back to a point before its fetch; and a call comes into being only
\* by an intent (a start by a start intent, a stop by an accepted stop, a
\* highlight by a highlight intent). So each intent yields at most one
\* request, whatever the answer.
PcRank(pc) ==
    CASE pc = "query" -> 0
      [] pc = "token" -> 1
      [] pc = "url" -> 2
      [] pc = "fetch" -> 3
      [] pc = "json" -> 4
      [] pc = "capture" -> 5
      [] OTHER -> 6

CallOf(api) ==
    CASE api = "createMeeting" -> "start"
      [] api = "uploadAudio" -> "stop"
      [] api = "createHighlight" -> "highlight"
      [] OTHER -> "none"

C15_NoRetry ==
    [][/\ request'.api # "none" =>
             /\ request'.by \in TaskIds
             /\ tasks[request'.by].kind = CallOf(request'.api)
             /\ PcRank(tasks[request'.by].pc) < PcRank("fetch")
             /\ tasks'[request'.by].kind = CallOf(request'.api)
             /\ tasks'[request'.by].pc = "fetch"
       /\ \A i \in TaskIds :
             (tasks[i].kind # "none" /\ tasks'[i].kind # "none"
                 /\ tasks'[i] # tasks[i]) =>
                /\ PcRank(tasks'[i].pc) > PcRank(tasks[i].pc)
                /\ \/ tasks'[i].kind = tasks[i].kind
                   \/ tasks[i].kind = "toggle" /\ tasks'[i].kind = "start"
                /\ tasks'[i].pc = "fetch" => request'.by = i
       /\ \A i \in TaskIds :
             (tasks[i].kind = "none" /\ tasks'[i].kind # "none") =>
                /\ request' = NoRequest
                /\ tasks'[i].kind = "start" => StartCalled
                /\ tasks'[i].kind = "stop" => StopAccepted
                /\ tasks'[i].kind = "highlight" => HighlightIntent
                /\ tasks'[i].kind = "toggle" => CmdToggleRecording
                /\ tasks'[i].kind = "transcript" => CmdToggleTranscript
                /\ tasks'[i].kind = "probe" => PopupOpened]_vars

\* C15 witness: the meeting request of a start has just failed on the
\* network; the call is over and nothing has been issued in its place.
C15_Witness ==
    /\ answer = "network"
    /\ notified = FailureNotification(1, "Failed to fetch")
    /\ request = NoRequest
    /\ \A i \in TaskIds : tasks[i] = NoTask
    /\ nStarts = 1

\* C16: whenever the session is Recording, the start timestamp that
\* createHighlight reads, recordingState.startTime, is defined (a number).
C16_StartTimeDefined ==
    Status = "Recording" =>
       ToNumber(Get(recordingState, "startTime")) \notin {NaN, Null}

\* C17: from the step that takes the session out of Idle to the step that
\* brings it back, recordingState.currentTab keeps its value, and a tab
\* message sent meanwhile goes to that tab.
C17_TabFixed ==
    [][/\ (~SessionIdle /\ ~SessionIdle') =>
             recordingState'.currentTab = recordingState.currentTab
       /\ ~SessionIdle =>
             \A k \in 1..Len(sent') :
                sent'[k].tab = recordingState.currentTab]_vars

\* C18: while the session is Recording, a step other than the session's
\* stop leaves audioChunks as it is or appends one chunk at its end.
IsAppend(old, new) ==
    \/ new = old
    \/ /\ Len(new) = Len(old) + 1
       /\ SubSeq(new, 1, Len(old)) = old

C18_ChunksAppendOnly ==
    [][(Status = "Recording" /\ ~StopAccepted) =>
          IsAppend(recordingState.audioChunks,
                   recordingState'.audioChunks)]_vars

\* C19: a toggle-transcript intent, as the keyboard command or as the
\* popup's TOGGLE_TRANSCRIPT message, in whatever status, leaves
\* recordingState unchanged, issues no request, and has TOGGLE_TRANSCRIPT
\* sent to the active tab: the command when its query of the active tab
\* answers, the message at the latest when the listener has handled it
\* (nothing is pending after that step that could still send it).
C19_TranscriptToggle ==
    [][/\ (CmdToggleTranscript \/ MsgToggleTranscript) =>
             /\ recordingState' = recordingState
             /\ request' = NoRequest
       /\ \A i \in TaskIds : \A t \in Tabs : TranscriptQueryDone(i, t) =>
             /\ recordingState' = recordingState
             /\ request' = NoRequest
             /\ sent' = <<TabMessage(t, "TOGGLE_TRANSCRIPT", Null)>>
       /\ MsgToggleTranscript =>
             \/ \E k \in 1..Len(sent') : sent'[k].type = "TOGGLE_TRANSCRIPT"
             \/ InFlight("transcript")' # InFlight("transcript")]_vars

\* C20: the 'start-recording' command alternates start and stop. Issued
\* while the state says recording it stops; issued while an earlier
\* command's start is on its way (its query of the active tab is pending)
\* and no stop has come since, it initiates no further start; issued
\* otherwise it initiates exactly one start.
C20_ToggleAlternates ==
    [][CmdToggleRecording =>
          IF recordingState.isRecording
          THEN ~recordingState'.isRecording
          ELSE IF InFlight("toggle") # {}
          THEN InFlight("toggle")' = InFlight("toggle")
          ELSE Cardinality(InFlight("toggle")') = 1]_vars

\* C21: whenever the session is Idle (not recording, no start or stop in
\* flight) no MediaRecorder is capturing; and a MediaRecorder that is
\* capturing is the one recordingState.mediaRecorder refers to, with
\* isRecording true, so that a stop intent stops it.
C21_StopReleasesCapture ==
    /\ SessionIdle => Capturing = {}
    /\ \A m \in Capturing :
          /\ recordingState.isRecording
          /\ recordingState.mediaRecorder = m

\* C22: a highlight request names a meeting, and it is the meeting of the
\* session that accepted the highlight intent.
C22_HighlightTargetsSession ==
    [][\A i \in TaskIds : \A e \in Elapsed : HighlightTokenRead(i, e) =>
          /\ request'.api = "createHighlight"
          /\ request'.meetingId # Null
          /\ request'.meetingId = tasks[i].mid]_vars

\* C23: no captured audio is lost. A stop accepted while the session is
\* Recording with a meeting and a stored token leads to an upload (a
\* stopRecording call goes into flight for it), also when no chunk has been
\* collected yet; the chunk a stopped recorder flushes arrives while the stop
\* of its session still waits to build the payload, so that it is part of
\* it; and an upload carries chunks of its own session's recorder only.
C23_NoAudioLost ==
    [][/\ (/\ StopAccepted
           /\ Status = "Recording"
           /\ recordingState.meetingId # Null
           /\ storedToken # Null)
             => InFlight("stop")' # InFlight("stop")
       /\ \A r \in MeetingIds : RecorderStopped(r, 1) =>
             /\ recordingState.meetingId = r
             /\ \E i \in TaskIds :
                   /\ tasks[i].kind = "stop"
                   /\ tasks[i].pc = "token"
                   /\ tasks[i].mid = r
       /\ request'.api = "uploadAudio" =>
             \A k \in 1..Len(request'.payload) :
                request'.payload[k][1] = request'.meetingId]_vars

\* C24: in every state where no start or stop is in flight the badge reads
\* 'REC' exactly when isRecording is true.
C24_BadgeReflectsSession ==
    (~StartInFlight /\ ~StopInFlight) =>
       (badge = "REC" <=> recordingState.isRecording)

\* C25: whenever the popup is open, has had the answer to its question about
\* the recording state, and no start or stop is in flight, the popup shows a
\* recording (its isRecording flag, from which the status text and the
\* buttons are drawn) exactly when the controller's state says recording.
C25_PopupShowsControllerState ==
    (popup.open /\ ~popup.stateAsked /\ ~StartInFlight /\ ~StopInFlight) =>
       (popup.isRecording <=> recordingState.isRecording)

\* C26: a START_RECORDING message, from the content script of a tab or from
\* the popup, makes the listener call startRecording for a defined tab id: a
\* startRecording call for one of the tabs comes into being in that step
\* (stated for the steps taken while one more call can be followed).
C26_StartIntentRunsStart ==
    [][(/\ CanCall /\ nStarts < limit.starts
        /\ \/ \E t \in Tabs : MsgStartRecording(t)
           \/ MsgStartRecordingFromPopup)
          => \E i \in TaskIds : /\ tasks[i].kind = "none"
                                /\ tasks'[i].kind = "start"
                                /\ tasks'[i].tab \in Tabs]_vars

\* C27: the messages sent to a tab are well ordered. RECORDING_STARTED
\* carries the meeting of a recorder that is capturing; RECORDING_STOPPED is
\* sent only after some RECORDING_STARTED was sent (one is sent exactly in
\* the step that starts a recorder, so some recorder has been started); and
\* TRANSCRIPTION_COMPLETE is sent ahead of the RECORDING_STOPPED to the same
\* tab.
C27_MessagesWellOrdered ==
    [][\A k \in 1..Len(sent') :
          /\ sent'[k].type = "RECORDING_STARTED" =>
                /\ sent'[k].meetingId # Null
                /\ recorders'[sent'[k].meetingId] = "recording"
          /\ sent'[k].type = "RECORDING_STOPPED" =>
                \E m \in MeetingIds : recorders[m] # "none"
          /\ sent'[k].type = "TRANSCRIPTION_COMPLETE" =>
                \E j \in (k + 1)..Len(sent') :
                   /\ sent'[j].type = "RECORDING_STOPPED"
                   /\ sent'[j].tab = sent'[k].tab]_vars

\* C28: a STOP_RECORDING message that arrives while isRecording is false
\* changes nothing: recordingState, the calls in flight, the recorders and
\* the badge stay as they are, no request is issued, no message is sent to a
\* tab and no notification is created.
C28_StopWhileNotRecordingIsNoOp ==
    [][(MsgStopRecording /\ ~recordingState.isRecording) =>
          /\ recordingState' = recordingState
          /\ tasks' = tasks
          /\ recorders' = recorders
          /\ badge' = badge
          /\ request' = NoRequest
          /\ sent' = <<>>
          /\ notified' = NoNotification]_vars

\* C28 witness: a stop message has just been ignored in a state that a
\* stop would have changed: the badge still reads 'REC' and a recorder is
\* still capturing, left behind by a start that outlived a stop.
C28_Witness ==
    /\ answer = "not recording"
    /\ ~recordingState.isRecording
    /\ badge = "REC"
    /\ Capturing # {}
    /\ sent = <<>> /\ notified = NoNotification /\ request = NoRequest

\* C29: the stored token changes only in a login or registration that
\* succeeded (which writes a token) and in a logout (which removes it); a
\* login or registration that failed leaves it as it was; and a start whose
\* token lookup finds no token, as every lookup does from a logout to the
\* next successful login, is rejected as 'Not authenticated' without a
\* request.
C29_TokenOnlyThroughAuth ==
    [][/\ storedToken' # storedToken => TokenStored \/ TokenRemoved
       /\ TokenStored => storedToken = Null /\ storedToken' = Token
       /\ TokenRemoved => storedToken' = Null
       /\ (\E o \in FetchOutcomes \ {"ok"} : LoginFailed(o)) =>
             storedToken' = storedToken
       /\ \A i \in TaskIds :
             (StartTokenRead(i) /\ storedToken = Null) =>
                /\ notified' = FailureNotification(i, "Not authenticated")
                /\ request' = NoRequest
                /\ tasks'[i] = NoTask]_vars

\* C29 witness: a login has just failed while a start waits for its token
\* lookup; no token is stored, so the lookup will find none.
C29_Witness ==
    /\ answer = "login failed"
    /\ storedToken = Null
    /\ \E i \in TaskIds : tasks[i].kind = "start" /\ tasks[i].pc = "token"

====
